---- MODULE Spec2Model ----
(***************************************************************************)
(* NotesApp: the express handlers of src/app.js over the User and Note     *)
(* collections.  Strings that the handlers inspect character by character  *)
(* (page, search, title, content) are tuples of one-character strings;     *)
(* strings that are only compared (sort, email, username) are TLA+ strings.*)
(***************************************************************************)
EXTENDS Integers, Sequences, FiniteSets

VARIABLES users, notes, issued, now, nextNoteId, pending, resp

vars == <<users, notes, issued, now, nextNoteId, pending, resp>>

(***************************** bounds ***************************************)
\* notes created in a run of Spec
MaxNotes == 2
\* notes created in a run of PageSpec (one more than a page holds)
MaxPageNotes == 6
\* notes created in a run of ConcSpec
MaxConcNotes == 1
\* handlers suspended at an await at the same time (ConcSpec)
MaxPending == 2

(***************************** request values *******************************)
\* an absent query parameter or body field (undefined)
NoParam == <<"undefined">>
\* an absent sort parameter
NoSort == "undefined"
\* no token cookie
NoToken == [email |-> "", userid |-> 0]
\* a token cookie that jwt.verify rejects
BadToken == [email |-> "forged", userid |-> 0]
\* an :id that is not an ObjectId (the query throws a CastError)
MalformedId == 0
\* the results of parseInt
NaN == [nan |-> TRUE, n |-> 0]
Number(n) == [nan |-> FALSE, n |-> n]

(***************************** strings **************************************)
Lower(c) ==
  CASE c = "A" -> "a"
    [] c = "B" -> "b"
    [] c = "C" -> "c"
    [] OTHER -> c

IsSpace(c) == c = " "

RECURSIVE TrimLeft(_)
TrimLeft(s) ==
  IF s # <<>> /\ IsSpace(Head(s)) THEN TrimLeft(Tail(s)) ELSE s

RECURSIVE TrimRight(_)
TrimRight(s) ==
  IF s # <<>> /\ IsSpace(s[Len(s)]) THEN TrimRight(SubSeq(s, 1, Len(s) - 1)) ELSE s

\* String.prototype.trim
Trim(s) == TrimRight(TrimLeft(s))

Digits == <<"0", "1", "2", "3", "4", "5", "6", "7", "8", "9">>

IsDigit(c) == \E i \in 1..10 : Digits[i] = c

DigitValue(c) == (CHOOSE i \in 1..10 : Digits[i] = c) - 1

RECURSIVE DigitPrefix(_)
DigitPrefix(s) ==
  IF s # <<>> /\ IsDigit(Head(s)) THEN <<Head(s)>> \o DigitPrefix(Tail(s)) ELSE <<>>

RECURSIVE DecimalValue(_)
DecimalValue(ds) ==
  IF ds = <<>> THEN 0
  ELSE 10 * DecimalValue(SubSeq(ds, 1, Len(ds) - 1)) + DigitValue(ds[Len(ds)])

\* parseInt(x) of one argument: leading white space, an optional sign, then the
\* longest run of decimal digits; NaN when there is none (undefined included)
ParseInt(s) ==
  IF s = NoParam THEN NaN
  ELSE LET t == TrimLeft(s)
           neg == t # <<>> /\ Head(t) = "-"
           signed == t # <<>> /\ Head(t) \in {"-", "+"}
           ds == DigitPrefix(IF signed THEN Tail(t) ELSE t)
       IN IF ds = <<>> THEN NaN
          ELSE IF neg THEN Number(0 - DecimalValue(ds)) ELSE Number(DecimalValue(ds))

(***************************** new RegExp(search, 'i') **********************)
\* Over the alphabet of the model the only pattern metacharacters are "." (any
\* character) and "(" (opens a group; never closed here, so the constructor
\* throws a SyntaxError).
RegExpCompiles(p) == \A i \in 1..Len(p) : p[i] # "("

AtomMatches(a, c) == a = "." \/ Lower(a) = Lower(c)

\* an unanchored, case-insensitive match of pattern p somewhere in s
RegExpTest(p, s) ==
  \E i \in 0..(Len(s) - Len(p)) :
    \A j \in 1..Len(p) : AtomMatches(p[j], s[i + j])

(***************************** bcrypt, jsonwebtoken *************************)
\* bcrypt.hash(password, 10): a salted one-way hash, never the password itself
BcryptHash(password) == <<"$2b$10$", password>>

BcryptCompare(password, hash) == hash = BcryptHash(password)

\* jwt.sign({ email, userid }, secret)
JwtSign(user) == [email |-> user.email, userid |-> user.id]

\* jwt.verify(token, secret) returns the claims of a token signed with the
\* secret, and throws on anything else
JwtVerifies(token) == token \in issued

\* the middleware that sets res.locals.user: whether it is set (to the claims
\* of the token) or null
HasLocalsUser(token) == token # NoToken /\ JwtVerifies(token)

\* res.locals.user.userid
UserId(token) == token.userid

(***************************** responses ************************************)
Redirect(to, kind, msg) ==
  [status |-> "redirect", to |-> to, flash |-> kind, msg |-> msg, cookie |-> NoParam]

RedirectWithCookie(to, kind, msg, token) ==
  [status |-> "redirect", to |-> to, flash |-> kind, msg |-> msg, cookie |-> token]

Render(view, locals) == [status |-> "render", view |-> view, locals |-> locals]

ServerError(body) == [status |-> "500", body |-> body]

Respond(route, req, out) == resp' = [route |-> route, req |-> req, out |-> out]

\* a guard that looks for the cookie and does not verify it
IsLoggedInUnverified(token) == token # NoToken

\* isLoggedIn: whether it calls next()
IsLoggedIn(token) == token # NoToken /\ JwtVerifies(token)

LoginRedirect(token) ==
  IF token # NoToken
  THEN Redirect("/login", "error", "Invalid token.")
  ELSE Redirect("/login", "error", "You must be logged in.")

(***************************** User collection ******************************)
\* User.findOne({ email })
FindUserByEmail(email) == {u \in users : u.email = email}

\* a collection without unique indexes rejects nothing
NoUniqueIndex(username, email) == FALSE

\* the unique indexes of userSchema: an insert that repeats a username or an
\* email is rejected with a duplicate-key error
DuplicateKey(username, email) ==
  \E u \in users : u.username = username \/ u.email = email

NewUser(username, email, hashed) ==
  [id |-> Cardinality(users) + 1, username |-> username, email |-> email,
   password |-> hashed]

(***************************** Note collection ******************************)
NewNote(id, owner, title, content, createdAt) ==
  [id |-> id, user |-> owner, title |-> title, content |-> content,
   createdAt |-> createdAt]

(***************************** GET / ****************************************)
limit == 5

\* parseInt(req.query.page) || 1
PageOf(page) ==
  LET v == ParseInt(page) IN IF v.nan \/ v.n = 0 THEN 1 ELSE v.n

\* req.query.sort || 'newest'
SortOf(sort) == IF sort = NoSort \/ sort = "" THEN "newest" ELSE sort

\* req.query.search ? req.query.search.trim() : ''
SearchOf(search) ==
  IF search = NoParam \/ search = <<>> THEN <<>> ELSE Trim(search)

\* ascending for every value but 'newest'
AscendingUnlessNewest(sort) == SortOf(sort) # "newest"

\* sortOptions: TRUE for { createdAt: 1 }, FALSE for { createdAt: -1 }
SortAscending(sort) == SortOf(sort) = "oldest"

\* the documents that match { user: userid, $or: [{ title: regex }, { content: regex }] }
\* the same filter without its owner predicate
QueryAnyOwner(userid, search) ==
  {n \in notes :
     search # <<>> => RegExpTest(search, n.title) \/ RegExpTest(search, n.content)}

Query(userid, search) ==
  {n \in notes :
     /\ n.user = userid
     /\ search # <<>> => RegExpTest(search, n.title) \/ RegExpTest(search, n.content)}

CountDocuments(q) == Cardinality(q)

\* Math.ceil(totalNotes / limit)
TotalPages(totalNotes) == (totalNotes + limit - 1) \div limit

\* the page as requested, never clamped
UnclampedPage(page, totalPages) == page

\* if (totalPages > 0 && page > totalPages) page = totalPages
EffectivePage(page, totalPages) ==
  IF totalPages > 0 /\ page > totalPages THEN totalPages ELSE page

Before(a, b, ascending) ==
  IF ascending THEN a.createdAt <= b.createdAt ELSE a.createdAt >= b.createdAt

\* .sort({ createdAt: +-1 }): every order of q that is sorted on createdAt; the
\* store leaves the order of documents with equal keys unspecified
RECURSIVE SortedOrders(_, _)
SortedOrders(q, ascending) ==
  IF q = {} THEN {<<>>}
  ELSE UNION {{<<x>> \o rest : rest \in SortedOrders(q \ {x}, ascending)} :
              x \in {y \in q : \A z \in q : Before(y, z, ascending)}}

\* .skip(n).limit(m) of a sorted order
SkipLimit(order, skip, lim) ==
  SubSeq(order, skip + 1, IF skip + lim < Len(order) THEN skip + lim ELSE Len(order))

\* Note.find(query).sort(sortOptions).skip(skip).limit(limit): the results the
\* store may return
Find(q, ascending, skip, lim) ==
  {SkipLimit(order, skip, lim) : order \in SortedOrders(q, ascending)}

\* the store rejects a negative skip
FindThrows(skip) == skip < 0

ListReq(token, page, sort, search) ==
  [token |-> token, page |-> page, sort |-> sort, search |-> search]

Listing(items, page, totalPages, totalNotes, sort, search) ==
  Render("index", [notes |-> items, currentPage |-> page, totalPages |-> totalPages,
                   totalNotes |-> totalNotes, sort |-> sort, search |-> search])

\* lines 201-210
AnonymousListing(req) ==
  Listing(<<>>, 1, 0, 0, SortOf(req.sort), SearchOf(req.search))

\* new RegExp(search, 'i') throws
RegExpThrows(req) ==
  SearchOf(req.search) # <<>> /\ ~RegExpCompiles(SearchOf(req.search))

\* lines 219: await Note.countDocuments(query)
CountStep(req) ==
  CountDocuments(Query(UserId(req.token), SearchOf(req.search)))

\* lines 220-236, given what countDocuments returned
FindStep(req, totalNotes) ==
  LET totalPages == TotalPages(totalNotes)
      page == EffectivePage(PageOf(req.page), totalPages)
      skip == (page - 1) * limit
      q == Query(UserId(req.token), SearchOf(req.search))
  IN IF FindThrows(skip)
     THEN Respond("GET /", req, ServerError("Error fetching notes"))
     ELSE \E items \in Find(q, SortAscending(req.sort), skip, limit) :
            Respond("GET /", req,
                    Listing(items, page, totalPages, totalNotes,
                            SortOf(req.sort), SearchOf(req.search)))

(***************************** state ****************************************)
NoResponse ==
  [route |-> "none", req |-> [token |-> NoToken], out |-> [status |-> "none"]]

Init ==
  /\ users = {}
  /\ notes = {}
  /\ issued = {}
  /\ now = 0
  /\ nextNoteId = 1
  /\ pending = {}
  /\ resp = NoResponse

\* a handler suspended at an await: what it has read so far
Suspended(h, req, totalNotes) ==
  [slot |-> CHOOSE k \in 1..(Cardinality(pending) + 1) : \A p \in pending : p.slot # k,
   h |-> h, req |-> req, totalNotes |-> totalNotes]

(***************************** POST /register *******************************)
RegisterReq(username, email, password) ==
  [token |-> NoToken, username |-> username, email |-> email, password |-> password]

\* lines 104-107
UserExists(req) ==
  /\ Respond("POST /register", req, Redirect("/register", "error", "User already exists"))
  /\ UNCHANGED <<users, issued>>

\* lines 109-124: User.create, then the token; the catch block on a rejected insert
CreateUser(req) ==
  IF DuplicateKey(req.username, req.email)
  THEN /\ Respond("POST /register", req,
                  Redirect("/register", "error", "Error registering user: duplicate key"))
       /\ UNCHANGED <<users, issued>>
  ELSE LET user == NewUser(req.username, req.email, BcryptHash(req.password))
       IN /\ users' = users \cup {user}
          /\ issued' = issued \cup {JwtSign(user)}
          /\ Respond("POST /register", req,
                     RedirectWithCookie("/", "success", "Registered successfully",
                                        JwtSign(user)))

\* the whole handler, no other request running in between
PostRegister(username, email, password) ==
  LET req == RegisterReq(username, email, password)
  IN /\ IF FindUserByEmail(email) # {} THEN UserExists(req) ELSE CreateUser(req)
     /\ UNCHANGED <<notes, now, nextNoteId, pending>>

\* the handler up to the end of `await User.findOne`
PostRegisterFindOne(username, email, password) ==
  LET req == RegisterReq(username, email, password)
  IN IF FindUserByEmail(email) # {}
     THEN UserExists(req) /\ UNCHANGED <<notes, now, nextNoteId, pending>>
     ELSE /\ pending' = pending \cup {Suspended("register", req, 0)}
          /\ UNCHANGED <<users, issued, notes, now, nextNoteId, resp>>

\* the handler from `await User.create` on
PostRegisterCreate(p) ==
  /\ p \in pending
  /\ p.h = "register"
  /\ CreateUser(p.req)
  /\ pending' = pending \ {p}
  /\ UNCHANGED <<notes, now, nextNoteId>>

(***************************** POST /login, GET /logout *********************)
PostLogin(email, password) ==
  LET req == [token |-> NoToken, email |-> email, password |-> password]
      found == FindUserByEmail(email)
  IN /\ IF found = {} \/ \A u \in found : ~BcryptCompare(password, u.password)
        THEN /\ Respond("POST /login", req,
                        Redirect("/login", "error", "Invalid email or password"))
             /\ UNCHANGED issued
        ELSE \E u \in found :
               /\ issued' = issued \cup {JwtSign(u)}
               /\ Respond("POST /login", req,
                          RedirectWithCookie("/", "success", "Logged in successfully",
                                             JwtSign(u)))
     /\ UNCHANGED <<users, notes, now, nextNoteId, pending>>

GetLogout(token) ==
  /\ Respond("GET /logout", [token |-> token],
             RedirectWithCookie("/login", "success", "Logged out successfully", NoToken))
  /\ UNCHANGED <<users, notes, issued, now, nextNoteId, pending>>

(***************************** POST /notes **********************************)
\* !title || !content
Missing(field) == field = NoParam \/ field = <<>>

\* elapsed is what the clock advanced since the last note was stamped
PostNotes(token, title, content, elapsed) ==
  LET req == [token |-> token, title |-> title, content |-> content]
  IN IF ~IsLoggedIn(token)
     THEN /\ Respond("POST /notes", req, LoginRedirect(token))
          /\ UNCHANGED <<users, notes, issued, now, nextNoteId, pending>>
     ELSE IF Missing(title) \/ Missing(content)
     THEN /\ Respond("POST /notes", req,
                     Redirect("/", "error", "Title and content are required"))
          /\ UNCHANGED <<users, notes, issued, now, nextNoteId, pending>>
     ELSE /\ now' = now + elapsed
          /\ notes' = notes \cup {NewNote(nextNoteId, UserId(token), title, content, now')}
          /\ nextNoteId' = nextNoteId + 1
          /\ Respond("POST /notes", req, Redirect("/", "success", "Note created successfully"))
          /\ UNCHANGED <<users, issued, pending>>

(***************************** GET / ****************************************)
\* the whole handler, no other request running in between
GetIndex(token, page, sort, search) ==
  LET req == ListReq(token, page, sort, search)
  IN /\ IF ~HasLocalsUser(token) THEN Respond("GET /", req, AnonymousListing(req))
        ELSE IF RegExpThrows(req)
        THEN Respond("GET /", req, ServerError("Error fetching notes"))
        ELSE FindStep(req, CountStep(req))
     /\ UNCHANGED <<users, notes, issued, now, nextNoteId, pending>>

\* the handler up to the end of `await Note.countDocuments`
GetIndexCount(token, page, sort, search) ==
  LET req == ListReq(token, page, sort, search)
  IN IF ~HasLocalsUser(token)
     THEN /\ Respond("GET /", req, AnonymousListing(req))
          /\ UNCHANGED <<users, notes, issued, now, nextNoteId, pending>>
     ELSE IF RegExpThrows(req)
     THEN /\ Respond("GET /", req, ServerError("Error fetching notes"))
          /\ UNCHANGED <<users, notes, issued, now, nextNoteId, pending>>
     ELSE /\ pending' = pending \cup {Suspended("list", req, CountStep(req))}
          /\ UNCHANGED <<users, notes, issued, now, nextNoteId, resp>>

\* the handler from `await Note.find` on
GetIndexFind(p) ==
  /\ p \in pending
  /\ p.h = "list"
  /\ FindStep(p.req, p.totalNotes)
  /\ pending' = pending \ {p}
  /\ UNCHANGED <<users, notes, issued, now, nextNoteId>>

(***************************** GET /notes/:id *******************************)
\* Note.findOne({ _id: id, user: userid })
FindOneNote(id, userid) == {n \in notes : n.id = id /\ n.user = userid}

GetNote(token, id) ==
  LET req == [token |-> token, id |-> id]
      found == FindOneNote(id, UserId(token))
  IN /\ IF ~HasLocalsUser(token)
        THEN Respond("GET /notes/:id", req,
                     Redirect("/login", "error", "You must be logged in."))
        ELSE IF id = MalformedId
        THEN Respond("GET /notes/:id", req, Redirect("/", "error", "Error fetching note"))
        ELSE IF found = {}
        THEN Respond("GET /notes/:id", req,
                     Redirect("/", "error", "Note not found or unauthorized"))
        ELSE \E note \in found : Respond("GET /notes/:id", req, Render("show", [note |-> note]))
     /\ UNCHANGED <<users, notes, issued, now, nextNoteId, pending>>

(***************************** POST /delete/:id *****************************)
\* a delete by _id alone
DeleteById(id, userid) == {n \in notes : n.id = id}

\* the filter of Note.findOneAndDelete({ _id: id, user: userid })
DeleteFilter(id, userid) == {n \in notes : n.id = id /\ n.user = userid}

PostDelete(token, id) ==
  LET req == [token |-> token, id |-> id]
      found == DeleteFilter(id, UserId(token))
  IN /\ IF ~IsLoggedIn(token)
        THEN Respond("POST /delete/:id", req, LoginRedirect(token)) /\ UNCHANGED notes
        ELSE IF id = MalformedId
        THEN /\ Respond("POST /delete/:id", req, Redirect("/", "error", "Error deleting note"))
             /\ UNCHANGED notes
        ELSE IF found = {}
        THEN /\ Respond("POST /delete/:id", req, Redirect("/", "error", "Note not found"))
             /\ UNCHANGED notes
        ELSE \E note \in found :
               /\ notes' = notes \ {note}
               /\ Respond("POST /delete/:id", req, Redirect("/", "success", "Note deleted"))
     /\ UNCHANGED <<users, issued, now, nextNoteId, pending>>

(***************************** requests *************************************)
Usernames == {"ann", "bob"}
Emails == {"ann@x", "bob@x"}
Passwords == {"pw1", "pw2"}
\* the cookies a client can send
Tokens == {NoToken, BadToken} \cup issued
\* the :id values of a run that creates at most cap notes
Ids(cap) == {MalformedId} \cup 1..cap

(***************************** Spec: one request at a time ******************)
SpecTitles == {<<"a">>, <<>>}
SpecPages == {NoParam, <<"2">>}
SpecSorts == {NoSort, "oldest"}
SpecSearches == {NoParam, <<".">>}

Next ==
  \/ \E u \in Usernames, e \in Emails : PostRegister(u, e, "pw1")
  \/ \E e \in Emails, p \in Passwords : PostLogin(e, p)
  \/ \E t \in Tokens : GetLogout(t)
  \/ \E t \in Tokens, title \in SpecTitles :
       nextNoteId <= MaxNotes /\ PostNotes(t, title, <<"c">>, 1)
  \/ \E t \in Tokens, page \in SpecPages, sort \in SpecSorts, search \in SpecSearches :
       GetIndex(t, page, sort, search)
  \/ \E t \in Tokens, id \in Ids(MaxNotes) : GetNote(t, id)
  \/ \E t \in Tokens, id \in Ids(MaxNotes) : PostDelete(t, id)

Spec == Init /\ [][Next]_vars

(***************************** SearchSpec: one owner, search terms, ties *****)
Titles == {<<"a", "b">>, <<"A">>}
Searches ==
  {NoParam, <<>>, <<" ">>, <<" ", "B", " ">>, <<"c">>, <<".">>, <<"a", ".">>, <<"(">>}

SearchNext ==
  \/ PostRegister("ann", "ann@x", "pw1")
  \/ \E t \in issued, title \in Titles, elapsed \in {0, 1} :
       nextNoteId <= MaxNotes /\ PostNotes(t, title, <<"c">>, elapsed)
  \/ \E t \in issued, search \in Searches, sort \in {NoSort, "oldest"} :
       GetIndex(t, NoParam, sort, search)
  \/ \E t \in issued, id \in 1..MaxNotes : PostDelete(t, id)

SearchSpec == Init /\ [][SearchNext]_vars

(***************************** ConcSpec: handlers interleave at awaits ******)
ConcNext ==
  \/ \E u \in Usernames, e \in Emails :
       Cardinality(pending) < MaxPending /\ PostRegisterFindOne(u, e, "pw1")
  \/ \E p \in pending : PostRegisterCreate(p)
  \/ \E t \in issued : nextNoteId <= MaxConcNotes /\ PostNotes(t, <<"a">>, <<"c">>, 1)
  \/ \E t \in issued :
       Cardinality(pending) < MaxPending /\ GetIndexCount(t, NoParam, NoSort, NoParam)
  \/ \E p \in pending : GetIndexFind(p)
  \/ \E t \in issued, id \in 1..MaxConcNotes : PostDelete(t, id)

ConcSpec == Init /\ [][ConcNext]_vars

(***************************** PageSpec: one owner filling pages ************)
Pages == {NoParam, <<"1">>, <<"2">>, <<"3">>, <<"0">>, <<"-", "1">>, <<"x">>, <<" ", "2", "x">>}
Sorts == {NoSort, "oldest", "newest", "recent"}

PageNext ==
  \/ PostRegister("ann", "ann@x", "pw1")
  \/ \E t \in issued, title \in {<<"a">>, <<"b">>} :
       nextNoteId <= MaxPageNotes /\ PostNotes(t, title, <<"c">>, 1)
  \/ \E t \in issued, page \in Pages, sort \in Sorts, search \in {NoParam, <<"B">>} :
       GetIndex(t, page, sort, search)

PageSpec == Init /\ [][PageNext]_vars

(***************************** properties ***********************************)
IsListing == resp.route = "GET /" /\ resp.out.status = "render"

Items == resp.out.locals.notes

ItemSet == {Items[i] : i \in 1..Len(Items)}

NotFound == Redirect("/", "error", "Note not found")

\* C1: an authenticated listing returns only notes owned by the user of the
\* token it was asked with, whatever the page, sort and search term
C1_ListingOnlyOwnNotes ==
  IsListing => \A n \in ItemSet : n.user = UserId(resp.req.token)

\* user B is shown a non-empty listing while the store holds another user's note
C1_Witness ==
  /\ IsListing
  /\ Items # <<>>
  /\ \E n \in notes : n.user # UserId(resp.req.token)

\* C2: a delete by an authenticated user of another user's note, like a delete
\* of an id no note has, answers "Note not found" and changes no note; a note
\* leaves the store only in a delete asked with its owner's token
C2_DeleteOnlyByOwner ==
  [][/\ \A t \in Tokens, id \in 1..MaxNotes :
          (/\ PostDelete(t, id)
           /\ IsLoggedIn(t)
           /\ \A n \in notes : n.id = id => n.user # UserId(t))
          => (notes' = notes /\ resp'.out = NotFound)
     /\ \A n \in notes \ notes' :
          /\ resp'.route = "POST /delete/:id"
          /\ resp'.req.id = n.id
          /\ UserId(resp'.req.token) = n.user]_vars

\* a logged-in user was answered "Note not found" for a note that another user
\* owns and that is still stored
C2_Witness ==
  /\ resp.route = "POST /delete/:id"
  /\ resp.out = NotFound
  /\ IsLoggedIn(resp.req.token)
  /\ \E n \in notes : n.id = resp.req.id /\ n.user # UserId(resp.req.token)

Anonymous(t) == t = NoToken \/ ~JwtVerifies(t)

NothingStored == UNCHANGED <<users, notes>>

ToLogin == resp'.out.status = "redirect" /\ resp'.out.to = "/login"

\* C8: a request with no token or with a token that fails verification changes
\* no stored user or note; POST /notes, POST /delete/:id and GET /notes/:id
\* redirect it to /login and GET / renders the empty listing
C8_AnonymousChangesNothing ==
  [][\A t \in Tokens : Anonymous(t) =>
       /\ \A title \in SpecTitles :
            PostNotes(t, title, <<"c">>, 1) => NothingStored /\ ToLogin
       /\ \A id \in Ids(MaxNotes) :
            /\ PostDelete(t, id) => NothingStored /\ ToLogin
            /\ GetNote(t, id) => NothingStored /\ ToLogin
       /\ \A page \in SpecPages, sort \in SpecSorts, search \in SpecSearches :
            GetIndex(t, page, sort, search) =>
              /\ NothingStored
              /\ resp'.out.status = "render"
              /\ resp'.out.locals.notes = <<>>
              /\ resp'.out.locals.currentPage = 1
              /\ resp'.out.locals.totalPages = 0
              /\ resp'.out.locals.totalNotes = 0]_vars

\* a delete of a stored note's id, asked with a token that fails verification,
\* was redirected to /login and the note is still stored
C8_Witness ==
  /\ resp.route = "POST /delete/:id"
  /\ resp.req.token = BadToken
  /\ resp.out.status = "redirect"
  /\ resp.out.to = "/login"
  /\ \E n \in notes : n.id = resp.req.id

(***************************** ConcSpec properties **************************)
RegisterFailed ==
  /\ resp'.out.status = "redirect"
  /\ resp'.out.to = "/register"
  /\ resp'.out.flash = "error"

EmailHeld(email) == \E u \in users : u.email = email

\* C7: a registration whose email a stored user holds, at the findOne or by the
\* time of the insert, creates no user and redirects to /register with an
\* error; no two stored users ever share an email or a username
C7_UniqueIdentity ==
  /\ [](\A u, v \in users : (u.email = v.email \/ u.username = v.username) => u = v)
  /\ [][/\ \A un \in Usernames, em \in Emails :
             (PostRegisterFindOne(un, em, "pw1") /\ EmailHeld(em))
             => (users' = users /\ RegisterFailed)
        /\ \A p \in pending :
             (PostRegisterCreate(p) /\ EmailHeld(p.req.email))
             => (users' = users /\ RegisterFailed)]_vars

\* a registration that found no user with its email was rejected at the insert,
\* by which time another registration had stored that email
C7_Witness ==
  /\ resp.route = "POST /register"
  /\ resp.out.msg = "Error registering user: duplicate key"
  /\ EmailHeld(resp.req.email)
  /\ \A u \in users : u.username # resp.req.username

Min(a, b) == IF a < b THEN a ELSE b

Max(a, b) == IF a > b THEN a ELSE b

\* C10: an authenticated listing carries min(5, totalNotes - (currentPage-1)*5)
\* items (none when that is negative), whatever ran between its two queries
C10_ConsistentResponse ==
  (IsListing /\ HasLocalsUser(resp.req.token)) =>
    Len(Items) =
      Max(0, Min(5, resp.out.locals.totalNotes - (resp.out.locals.currentPage - 1) * 5))

(***************************** PageSpec properties **************************)
Requested == ParseInt(resp.req.page)

\* the notes of the requesting user that contain the trimmed search term, letter
\* case ignored, in the title or the content
Contains(term, s) ==
  \E i \in 0..(Len(s) - Len(term)) :
    \A j \in 1..Len(term) : Lower(term[j]) = Lower(s[i + j])

Term == IF resp.req.search = NoParam THEN <<>> ELSE Trim(resp.req.search)

Matching ==
  {n \in notes :
     /\ n.user = UserId(resp.req.token)
     /\ Term # <<>> => Contains(Term, n.title) \/ Contains(Term, n.content)}

Ceil5(n) == CHOOSE k \in 0..n : k * 5 >= n /\ (k - 1) * 5 < n

Ascending == resp.req.sort = "oldest"

\* x comes strictly before y in the requested order
Precedes(x, y) ==
  IF Ascending THEN x.createdAt < y.createdAt ELSE x.createdAt > y.createdAt

\* items are the elements at positions first+1 .. first+Len(items) of an order
\* of Matching that is sorted on createdAt in the requested direction
IsSliceAt(items, first) ==
  /\ \A i \in 1..Len(items) :
       /\ items[i] \in Matching
       /\ Cardinality({n \in Matching : Precedes(n, items[i])}) < first + i
       /\ first + i <= Cardinality({n \in Matching : ~Precedes(items[i], n)})
  /\ \A i, j \in 1..Len(items) : i # j => items[i] # items[j]

\* C3: for a requested page p >= 1 an authenticated listing reports totalNotes = n
\* (the owner's matching notes), totalPages = ceil(n/5), the page p clamped to
\* totalPages when that is positive, and exactly the elements at positions
\* (page-1)*5+1 .. min(page*5, n) of the sorted matching notes
C3_Pagination ==
  (resp.route = "GET /" /\ HasLocalsUser(resp.req.token)
     /\ ~Requested.nan /\ Requested.n >= 1) =>
    LET n == Cardinality(Matching)
        page == IF Ceil5(n) > 0 /\ Requested.n > Ceil5(n) THEN Ceil5(n) ELSE Requested.n
    IN /\ resp.out.status = "render"
       /\ resp.out.locals.totalNotes = n
       /\ resp.out.locals.totalPages = Ceil5(n)
       /\ resp.out.locals.currentPage = page
       /\ Len(Items) = Max(0, Min(page * 5, n) - (page - 1) * 5)
       /\ IsSliceAt(Items, (page - 1) * 5)

\* six notes, page 3 requested: the listing is page 2 of 2, holding the sixth note
C3_Witness ==
  /\ IsListing
  /\ Requested = Number(3)
  /\ resp.out.locals.totalNotes = 6
  /\ resp.out.locals.currentPage = 2
  /\ Len(Items) = 1
  /\ Matching = notes

\* C4: a page parameter that is absent, not a number or less than 1 lists the
\* first page and is never answered with an error
C4_PageDefaultsToOne ==
  (resp.route = "GET /" /\ HasLocalsUser(resp.req.token)
     /\ (Requested.nan \/ Requested.n < 1)) =>
    /\ resp.out.status = "render"
    /\ resp.out.locals.currentPage = 1
    /\ Len(Items) = Min(5, Cardinality(Matching))
    /\ IsSliceAt(Items, 0)

\* C6: the items of a listing are in ascending creation time for sort=oldest and
\* in descending creation time for every other or absent sort value
C6_SortOrder ==
  IsListing =>
    \A i, j \in 1..Len(Items) :
      i < j => IF resp.req.sort = "oldest"
               THEN Items[i].createdAt <= Items[j].createdAt
               ELSE Items[i].createdAt >= Items[j].createdAt

\* three notes stamped t1 < t2 < t3 listed newest first for an unrecognized sort
C6_Witness ==
  /\ IsListing
  /\ resp.req.sort = "recent"
  /\ Len(Items) = 3
  /\ Items[1].createdAt > Items[2].createdAt
  /\ Items[2].createdAt > Items[3].createdAt

(***************************** SearchSpec properties ************************)
\* C5: a listing holds exactly the owner's notes that contain the trimmed search
\* term as a literal, case-insensitive substring of the title or the content;
\* an empty or blank term lists what no term lists
C5_LiteralSearch ==
  (resp.route = "GET /" /\ HasLocalsUser(resp.req.token)) =>
    /\ resp.out.status = "render"
    /\ resp.out.locals.totalNotes = Cardinality(Matching)
    /\ Cardinality(Matching) <= 5 => ItemSet = Matching

\* C9: two listings in a row with the same token, page, sort and search over
\* unchanged notes return the same response
C9_RepeatableListing ==
  [][(/\ resp.route = "GET /"
      /\ resp'.route = "GET /"
      /\ resp'.req = resp.req
      /\ notes' = notes)
     => resp'.out = resp.out]_vars

====
